---- MODULE Spec2Model ----
(***************************************************************************)
(* Newsletter handlers of mkyang-site: api/subscribe.js,                   *)
(* api/unsubscribe.js and api/send-newsletter.js, with the external        *)
(* subscriber store (a document database), the delivery service and the    *)
(* public site as the environment.                                         *)
(*                                                                         *)
(* Strings the code inspects character by character (addresses) are        *)
(* sequences of one-character strings; other strings are TLA+ strings,     *)
(* with "" standing for an absent or empty (falsy) value.                  *)
(***************************************************************************)
EXTENDS Integers, Sequences, FiniteSets, TLC

VARIABLES
    env,          \* process.env: the configured secrets
    store,        \* the subscriber database: records in insertion order
    rateLimit,    \* subscribe.js: the in-memory map caller -> {start, count}
    now,          \* Date.now()
    passed,       \* history: per caller, the latest requests that passed the rate limit
    last,         \* the request subscribe/unsubscribe handled last, with its response,
                  \* the store before it and the caller's window count before it
    pc,           \* send-newsletter: where the run in progress stands
    request,      \* send-newsletter: the request of the run
    subscribers,  \* send-newsletter: the addresses getAllSubscribers accumulated
    cursor,       \* getAllSubscribers: the continuation cursor (0: none)
    idx,          \* send-newsletter: position of the for-loop in subscribers
    results,      \* send-newsletter: { sent, failed, errors }
    trace,        \* history: the external calls and pauses of the run, with their outcomes
    response,     \* send-newsletter: the response of the run (status 0: none yet)
    html,         \* send-newsletter: the text of the fetched post page, as its lines
    meta,         \* send-newsletter: the key/value pairs parsed from the page
    inflight      \* subscribe.js: the requests waiting at the await before the insert

vars == <<env, store, rateLimit, now, passed, last, pc, request, subscribers, cursor, idx,
          results, trace, response, html, meta, inflight>>

dispatchVars == <<pc, request, subscribers, cursor, idx, results, trace, response, html, meta>>

----------------------------------------------------------------------------
(* Bounds of the model *)

\* at most this many records in the store
MaxStore == 2
\* a caller's window counter is not driven beyond this value
MaxCount == 6
\* the clock is advanced at most this many times
MaxTicks == 2
\* a dispatch run starts from a store of at most this many records
MaxRecords == 3
\* the metadata block of a post page holds at most this many lines
MaxMetaLines == 3
\* at most this many subscribe requests are in progress at once
MaxInflight == 2

----------------------------------------------------------------------------
(* Strings *)

Whitespace == {" ", "\t", "\n"}

\* String.prototype.toLowerCase on one character of the model's alphabet
LowerChar(c) ==
    CASE c = "A" -> "a"
      [] c = "B" -> "b"
      [] c = "C" -> "c"
      [] OTHER -> c

toLowerCase(s) == [i \in 1..Len(s) |-> LowerChar(s[i])]

RECURSIVE trimStart(_)
trimStart(s) ==
    IF s # <<>> /\ Head(s) \in Whitespace THEN trimStart(Tail(s)) ELSE s

RECURSIVE trimEnd(_)
trimEnd(s) ==
    IF s # <<>> /\ s[Len(s)] \in Whitespace
    THEN trimEnd(SubSeq(s, 1, Len(s) - 1))
    ELSE s

\* String.prototype.trim
trim(s) == trimEnd(trimStart(s))

\* the position of the last occurrence in place of the first
RECURSIVE indexOf_last(_, _)
indexOf_last(s, c) ==
    IF s = <<>> THEN 0
    ELSE IF s[Len(s)] = c THEN Len(s)
    ELSE indexOf_last(SubSeq(s, 1, Len(s) - 1), c)

\* String.prototype.indexOf for one character: the position of its first
\* occurrence, counted from 1 (0: no occurrence, the code's -1)
RECURSIVE indexOf(_, _)
indexOf(s, c) ==
    IF s = <<>> THEN 0
    ELSE IF Head(s) = c THEN 1
    ELSE LET rest == indexOf(Tail(s), c) IN IF rest = 0 THEN 0 ELSE rest + 1

\* encodeURIComponent on one character of the model's alphabet
EncodeChar(c) ==
    CASE c = "@" -> <<"%", "4", "0">>
      [] c = " " -> <<"%", "2", "0">>
      [] c = "\t" -> <<"%", "0", "9">>
      [] c = "\n" -> <<"%", "0", "A">>
      [] c = "%" -> <<"%", "2", "5">>
      [] OTHER -> <<c>>

RECURSIVE encodeURIComponent(_)
encodeURIComponent(s) ==
    IF s = <<>> THEN <<>> ELSE EncodeChar(Head(s)) \o encodeURIComponent(Tail(s))

\* the character a percent escape stands for
DecodeEscape(h) ==
    CASE h = <<"4", "0">> -> "@"
      [] h = <<"2", "0">> -> " "
      [] h = <<"0", "9">> -> "\t"
      [] h = <<"0", "A">> -> "\n"
      [] h = <<"2", "5">> -> "%"
      [] OTHER -> "?"

\* the decoding of a query parameter's value
RECURSIVE decodeURIComponent(_)
decodeURIComponent(s) ==
    IF s = <<>> THEN <<>>
    ELSE IF Head(s) = "%" /\ Len(s) >= 3
    THEN <<DecodeEscape(SubSeq(s, 2, 3))>> \o decodeURIComponent(SubSeq(s, 4, Len(s)))
    ELSE <<Head(s)>> \o decodeURIComponent(Tail(s))

\* the normalisation with the lowercasing left out
NormalizeEmail_noLower(raw) == trim(raw)

\* rawEmail.trim().toLowerCase()
NormalizeEmail(raw) == toLowerCase(trim(raw))

\* /^[^\s@]+@[^\s@]+\.[^\s@]+$/.test(s)
EmailShape(s) ==
    \E i \in 1..Len(s), j \in 1..Len(s) :
        /\ s[i] = "@"
        /\ s[j] = "."
        /\ 1 < i
        /\ i + 1 < j
        /\ j < Len(s)
        /\ \A k \in 1..Len(s) : k # i => s[k] \notin (Whitespace \cup {"@"})

MAX_EMAIL_LENGTH == 254

\* email.length > 254 || !shape.test(email), negated
ValidEmail(s) == ~(Len(s) > MAX_EMAIL_LENGTH \/ ~EmailShape(s))

----------------------------------------------------------------------------
(* Request values *)

\* a request field: a string (of characters), undefined, or a non-string
Str(s) == [t |-> "string", v |-> s]
NoValue == [t |-> "undefined", v |-> <<>>]
NumberValue == [t |-> "number", v |-> <<>>]

\* !x for the values above
Falsy(x) == x.t = "undefined" \/ (x.t = "string" /\ x.v = <<>>)

AddrA == <<"a", "@", "b", ".", "c">>
AddrB == <<"b", "@", "b", ".", "c">>
\* the address of AddrA as its owner may type it
AddrMixed == <<"A", "@", "b", ".", "c">>

\* the raw address fields requests carry
RawEmails ==
    { Str(AddrA),
      Str(<<"A", "@", "B", ".", "c">>),
      Str(<<" ", "a", "@", "b", ".", "c", "\t">>),
      Str(AddrB),
      Str(<<"a", "@", "b">>),
      Str(<<"a", " ", "@", "b", ".", "c">>),
      Str(<<>>),
      NoValue,
      NumberValue }

\* the email query parameters unsubscribe requests carry
QueryEmails ==
    { Str(AddrA),
      Str(<<" ", "A", "@", "b", ".", "C">>),
      Str(AddrB),
      Str(<<"a", "@", "b">>),
      Str(<<>>),
      NoValue }

\* createHmac('sha256', key).update(msg).digest('hex').slice(0, 16): the keyed
\* hash is idealised as collision-free, a token is the pair it was computed from.
HmacToken(key, msg) == [key |-> key, msg |-> msg]
NoToken == [key |-> "", msg |-> <<>>]

Secrets == {"", "u1"}
Tokens ==
    {NoToken, HmacToken("u1", AddrA), HmacToken("u1", AddrB), HmacToken("u2", AddrA)}

----------------------------------------------------------------------------
(* The subscriber store (external) *)

Record(email, status) == [email |-> email, status |-> status]

\* filter { property: 'Email', title: { equals: email } }: ids of the matches, in order
RECURSIVE QueryByEmailFrom(_, _, _)
QueryByEmailFrom(s, email, i) ==
    IF i > Len(s) THEN <<>>
    ELSE (IF s[i].email = email THEN <<i>> ELSE <<>>) \o QueryByEmailFrom(s, email, i + 1)

\* the query with its filter left out: every record matches
QueryByEmail_noFilter(s, email) == [i \in 1..Len(s) |-> i]

QueryByEmail(s, email) == QueryByEmailFrom(s, email, 1)

\* what an external call can do: answer success, answer non-success, or raise
CallOutcomes == {"ok", "fail", "throw"}

\* the outcomes of a handler's first and second store call; the second call is
\* only made after the first returned
CallPairs ==
    {<<"ok", "ok">>, <<"ok", "fail">>, <<"ok", "throw">>,
     <<"fail", "ok">>, <<"fail", "fail">>, <<"throw", "ok">>}

\* the same for a handler that stops at a first call that did not succeed
StopPairs ==
    {<<"ok", "ok">>, <<"ok", "fail">>, <<"ok", "throw">>, <<"fail", "ok">>, <<"throw", "ok">>}

----------------------------------------------------------------------------
(* api/subscribe.js *)

RATE_LIMIT_WINDOW == 60000
RATE_LIMIT_MAX == 5

ALLOWED_ORIGINS == {"https://mkyang.ai", "https://www.mkyang.ai"}

Callers == {"unknown", "ip1", "ip2"}
NoEntry == [start |-> -1, count |-> 0]

\* the limiter comparing with >= in place of >
isRateLimited_offByOne(ip) ==
    LET entry == rateLimit[ip] IN
    IF entry = NoEntry \/ now - entry.start > RATE_LIMIT_WINDOW
    THEN [limited |-> FALSE,
          map |-> [rateLimit EXCEPT ![ip] = [start |-> now, count |-> 1]]]
    ELSE [limited |-> entry.count + 1 >= RATE_LIMIT_MAX,
          map |-> [rateLimit EXCEPT ![ip] = [start |-> entry.start, count |-> entry.count + 1]]]

\* a rejected request restarting the caller's window
isRateLimited_restartOnReject(ip) ==
    LET entry == rateLimit[ip] IN
    IF entry = NoEntry \/ now - entry.start > RATE_LIMIT_WINDOW
    THEN [limited |-> FALSE,
          map |-> [rateLimit EXCEPT ![ip] = [start |-> now, count |-> 1]]]
    ELSE [limited |-> entry.count + 1 > RATE_LIMIT_MAX,
          map |-> [rateLimit EXCEPT ![ip] =
                      [start |-> IF entry.count + 1 > RATE_LIMIT_MAX THEN now ELSE entry.start,
                       count |-> entry.count + 1]]]

\* isRateLimited(ip): its verdict and the map it leaves
isRateLimited(ip) ==
    LET entry == rateLimit[ip] IN
    IF entry = NoEntry \/ now - entry.start > RATE_LIMIT_WINDOW
    THEN [limited |-> FALSE,
          map |-> [rateLimit EXCEPT ![ip] = [start |-> now, count |-> 1]]]
    ELSE [limited |-> entry.count + 1 > RATE_LIMIT_MAX,
          map |-> [rateLimit EXCEPT ![ip] = [start |-> entry.start, count |-> entry.count + 1]]]

\* req.headers['x-forwarded-for']?.split(',')[0]?.trim() || 'unknown';
\* the header is given as the list of its comma-separated parts, trimmed
ClientIp(xff) == IF xff = <<>> \/ Head(xff) = "" THEN "unknown" ELSE Head(xff)

KeepLast(s, n) == IF Len(s) > n THEN SubSeq(s, Len(s) - n + 1, Len(s)) ELSE s

NoSubscribeRequest ==
    [method |-> "", origin |-> "", xff |-> <<>>, email |-> NoValue, token |-> NoToken]

Reply(handler, req, status, body, calls) ==
    [handler |-> handler, req |-> req, status |-> status, body |-> body,
     calls |-> calls, pre |-> store, limited |-> FALSE, before |-> 0]

\* the duplicate check of handler: insert only when the query answered success
\* with a match; a non-success answer falls through to the insert
DuplicateFound(checkOut, email) ==
    checkOut = "ok" /\ QueryByEmail(store, email) # <<>>

\* the origin check left out
OriginForbidden_never(origin) == FALSE

\* origin && !ALLOWED_ORIGINS.includes(origin): a request without the header passes
OriginForbidden(origin) == origin # "" /\ origin \notin ALLOWED_ORIGINS

\* export default async function handler(req, res) of subscribe.js
Subscribe(method, origin, xff, rawEmail, checkOut, insertOut) ==
    LET req == [method |-> method, origin |-> origin, xff |-> xff, email |-> rawEmail,
                token |-> NoToken]
        ip == ClientIp(xff)
        rl == isRateLimited(ip)
        email == NormalizeEmail(rawEmail.v)
        query == [op |-> "query", email |-> email, out |-> checkOut]
        insert == [op |-> "insert", email |-> email, out |-> insertOut]
        Done(status, body, calls) ==
            last' = [Reply("subscribe", req, status, body, calls)
                        EXCEPT !.limited = rl.limited, !.before = rateLimit[ip].count]
    IN
    /\ UNCHANGED <<env, now, inflight>>
    /\ UNCHANGED dispatchVars
    /\ IF method # "POST" THEN
           /\ last' = Reply("subscribe", req, 405, "Method not allowed", <<>>)
           /\ UNCHANGED <<store, rateLimit, passed>>
       ELSE IF OriginForbidden(origin) THEN
           /\ last' = Reply("subscribe", req, 403, "Forbidden", <<>>)
           /\ UNCHANGED <<store, rateLimit, passed>>
       ELSE
           /\ rl.map[ip].count <= MaxCount
           /\ rateLimit' = rl.map
           /\ passed' = IF rl.limited THEN passed
                        ELSE [passed EXCEPT ![ip] =
                                 KeepLast(Append(@, [t |-> now, start |-> rl.map[ip].start]),
                                          RATE_LIMIT_MAX + 1)]
           /\ IF rl.limited THEN
                  /\ Done(429, "Too many requests. Try again later.", <<>>)
                  /\ UNCHANGED store
              ELSE IF Falsy(rawEmail) \/ rawEmail.t # "string" THEN
                  /\ Done(400, "Valid email required", <<>>)
                  /\ UNCHANGED store
              ELSE IF ~ValidEmail(email) THEN
                  /\ Done(400, "Valid email required", <<>>)
                  /\ UNCHANGED store
              ELSE IF checkOut = "throw" THEN
                  /\ Done(500, "Internal error", <<query>>)
                  /\ UNCHANGED store
              ELSE IF DuplicateFound(checkOut, email) THEN
                  /\ Done(200, "ok", <<query>>)
                  /\ UNCHANGED store
              ELSE IF insertOut = "ok" THEN
                  /\ Len(store) < MaxStore
                  /\ store' = Append(store, Record(email, "active"))
                  /\ Done(200, "ok", <<query, insert>>)
              ELSE IF insertOut = "fail" THEN
                  /\ Done(500, "Failed to save subscription", <<query, insert>>)
                  /\ UNCHANGED store
              ELSE
                  /\ Done(500, "Internal error", <<query, insert>>)
                  /\ UNCHANGED store

\* a subscribe request that is not waiting for the store
NotInflight ==
    [stage |-> "none", req |-> NoSubscribeRequest, email |-> <<>>, check |-> "", limited |-> FALSE,
     before |-> 0]

\* handler of subscribe.js, for one of several requests in progress: from its
\* start to the answer of the duplicate check (the first await); the request
\* is answered here, or goes on to the insert
SubscribeCheck(r, method, origin, xff, rawEmail, checkOut) ==
    LET req == [method |-> method, origin |-> origin, xff |-> xff, email |-> rawEmail,
                token |-> NoToken]
        ip == ClientIp(xff)
        rl == isRateLimited(ip)
        email == NormalizeEmail(rawEmail.v)
        query == [op |-> "query", email |-> email, out |-> checkOut]
        Done(status, body, calls) ==
            /\ last' = [Reply("subscribe", req, status, body, calls)
                           EXCEPT !.limited = rl.limited, !.before = rateLimit[ip].count]
            /\ UNCHANGED inflight
    IN
    /\ inflight[r].stage = "none"
    /\ UNCHANGED <<env, now, store>>
    /\ UNCHANGED dispatchVars
    /\ IF method # "POST" THEN
           /\ last' = Reply("subscribe", req, 405, "Method not allowed", <<>>)
           /\ UNCHANGED <<rateLimit, passed, inflight>>
       ELSE IF OriginForbidden(origin) THEN
           /\ last' = Reply("subscribe", req, 403, "Forbidden", <<>>)
           /\ UNCHANGED <<rateLimit, passed, inflight>>
       ELSE
           /\ rl.map[ip].count <= MaxCount
           /\ rateLimit' = rl.map
           /\ passed' = IF rl.limited THEN passed
                        ELSE [passed EXCEPT ![ip] =
                                 KeepLast(Append(@, [t |-> now, start |-> rl.map[ip].start]),
                                          RATE_LIMIT_MAX + 1)]
           /\ IF rl.limited THEN
                  Done(429, "Too many requests. Try again later.", <<>>)
              ELSE IF Falsy(rawEmail) \/ rawEmail.t # "string" THEN
                  Done(400, "Valid email required", <<>>)
              ELSE IF ~ValidEmail(email) THEN
                  Done(400, "Valid email required", <<>>)
              ELSE IF checkOut = "throw" THEN
                  Done(500, "Internal error", <<query>>)
              ELSE IF DuplicateFound(checkOut, email) THEN
                  Done(200, "ok", <<query>>)
              ELSE
                  /\ inflight' = [inflight EXCEPT ![r] =
                                     [stage |-> "insert", req |-> req, email |-> email,
                                      check |-> checkOut, limited |-> rl.limited,
                                      before |-> rateLimit[ClientIp(xff)].count]]
                  /\ UNCHANGED last

\* handler of subscribe.js, for a request past its duplicate check: the insert
\* (the second await) and the answer
SubscribeInsert(r, insertOut) ==
    LET req == inflight[r].req
        email == inflight[r].email
        query == [op |-> "query", email |-> email, out |-> inflight[r].check]
        insert == [op |-> "insert", email |-> email, out |-> insertOut]
        Done(status, body, calls) ==
            last' = [Reply("subscribe", req, status, body, calls)
                        EXCEPT !.limited = inflight[r].limited, !.before = inflight[r].before]
    IN
    /\ inflight[r].stage = "insert"
    /\ inflight' = [inflight EXCEPT ![r] = NotInflight]
    /\ UNCHANGED <<env, now, rateLimit, passed>>
    /\ UNCHANGED dispatchVars
    /\ IF insertOut = "ok" THEN
           /\ Len(store) < MaxStore
           /\ store' = Append(store, Record(email, "active"))
           /\ Done(200, "ok", <<query, insert>>)
       ELSE IF insertOut = "fail" THEN
           /\ Done(500, "Failed to save subscription", <<query, insert>>)
           /\ UNCHANGED store
       ELSE
           /\ Done(500, "Internal error", <<query, insert>>)
           /\ UNCHANGED store

----------------------------------------------------------------------------
(* api/unsubscribe.js *)

\* the token check written as token && token !== expected: no token, no check
TokenAccepted_missingTokenPasses(token, email) ==
    env.UNSUBSCRIBE_SECRET # ""
        => ~(token # NoToken /\ token # HmacToken(env.UNSUBSCRIBE_SECRET, email))

\* the token check of handler: skipped when no secret is configured
TokenAccepted(token, email) ==
    env.UNSUBSCRIBE_SECRET # ""
        => ~(token = NoToken \/ token # HmacToken(env.UNSUBSCRIBE_SECRET, email))

\* export default async function handler(req, res) of unsubscribe.js
Unsubscribe(rawEmail, token, searchOut, updateOut) ==
    LET req == [method |-> "GET", origin |-> "", xff |-> <<>>, email |-> rawEmail,
                token |-> token]
        email == NormalizeEmail(rawEmail.v)
        found == QueryByEmail(store, email)
        query == [op |-> "query", email |-> email, out |-> searchOut]
        update == [op |-> "update", email |-> email, out |-> updateOut]
        Done(status, body, calls) == last' = Reply("unsubscribe", req, status, body, calls)
    IN
    /\ UNCHANGED <<env, now, rateLimit, passed, inflight>>
    /\ UNCHANGED dispatchVars
    /\ IF Falsy(rawEmail) THEN
           /\ Done(400, "Missing email parameter.", <<>>)
           /\ UNCHANGED store
       ELSE IF ~ValidEmail(email) THEN
           /\ Done(400, "Invalid email.", <<>>)
           /\ UNCHANGED store
       ELSE IF ~TokenAccepted(token, email) THEN
           /\ Done(403, "Invalid unsubscribe link.", <<>>)
           /\ UNCHANGED store
       ELSE IF searchOut = "throw" THEN
           /\ Done(500, "Something went wrong. Please try again.", <<query>>)
           /\ UNCHANGED store
       ELSE IF searchOut = "fail" THEN
           /\ Done(500, "Something went wrong. Please try again.", <<query>>)
           /\ UNCHANGED store
       ELSE IF found = <<>> THEN
           /\ Done(200, "This email is not subscribed.", <<query>>)
           /\ UNCHANGED store
       ELSE IF updateOut = "ok" THEN
           /\ store' = [store EXCEPT ![found[1]].status = "unsubscribed"]
           /\ Done(200, "You have been unsubscribed. Sorry to see you go.", <<query, update>>)
       ELSE
           /\ Done(500, "Something went wrong. Please try again.", <<query, update>>)
           /\ UNCHANGED store

----------------------------------------------------------------------------
(* api/send-newsletter.js *)

PAGE_SIZE == 100

NoDispatchRequest == [method |-> "", slug |-> "", secret |-> ""]
NoResults == [sent |-> 0, failed |-> 0, errors |-> <<>>]
NoResponse == [status |-> 0, keys |-> {}, message |-> "", sent |-> 0, failed |-> 0, errors |-> <<>>]

\* res.status(status).json({ error: message })
ErrorResponse(status, message) ==
    [status |-> status, keys |-> {"error"}, message |-> message,
     sent |-> 0, failed |-> 0, errors |-> <<>>]

\* an empty list answered as an error
NoSubscribersResponse_asError == ErrorResponse(404, "No active subscribers")

\* res.status(200).json({ ok: true, sent: 0, message: 'No active subscribers' })
NoSubscribersResponse ==
    [status |-> 200, keys |-> {"ok", "sent", "message"}, message |-> "No active subscribers",
     sent |-> 0, failed |-> 0, errors |-> <<>>]

\* a run without one successful send answered as a failure
ResultsResponse_failsWhenNoneSent(r) ==
    IF r.sent = 0 THEN ErrorResponse(502, "All sends failed")
    ELSE [status |-> 200, keys |-> {"ok", "sent", "failed", "errors"}, message |-> "",
          sent |-> r.sent, failed |-> r.failed, errors |-> r.errors]

\* res.status(200).json({ ok: true, ...results })
ResultsResponse(r) ==
    [status |-> 200, keys |-> {"ok", "sent", "failed", "errors"}, message |-> "",
     sent |-> r.sent, failed |-> r.failed, errors |-> r.errors]

NoLink == [email |-> <<>>, token |-> NoToken]

\* unsubscribeUrl(email): the email and token query parameters of the link
unsubscribeUrl(email) ==
    [email |-> encodeURIComponent(email),
     token |-> IF env.UNSUBSCRIBE_SECRET # ""
               THEN HmacToken(env.UNSUBSCRIBE_SECRET, email)
               ELSE NoToken]

\* an entry of the run's history: the call, its recipient, what the other side
\* did, the addresses accumulated when it was made, and (for a send) the
\* unsubscribe link of the message
Event(ev, to, out) ==
    [ev |-> ev, to |-> to, out |-> out, seen |-> subscribers, link |-> NoLink]

\* handler, the outer catch: console.error('Newsletter error:', err), the only
\* line the run writes to its log; t is the history with the call that raised
Logged(t, out) ==
    IF out = "throw" THEN Append(t, Event("console.error", <<>>, "Newsletter error:")) ELSE t

\* the lines a rendered post page marks its metadata block with
CommentOpen == <<"<", "!", "-", "-">>
BlogMeta == <<"B", "L", "O", "G", "_", "M", "E", "T", "A">>
EndMeta == <<"E", "N", "D", "_", "M", "E", "T", "A">>
CommentClose == <<"-", "-", ">">>
HtmlLine == <<"<", "p", ">">>

\* text.match(/<!--\s*\nBLOG_META\n([\s\S]*?)\nEND_META\s*\n-->/) on a page given
\* as its lines, for pages whose marker lines carry nothing else: the leftmost
\* opening pair of lines that a closing pair follows, and the lines up to the
\* first closing pair (at least one line: the pattern asks for two line breaks)
MatchBlock(text) ==
    LET Closes(i) == { j \in (i + 3)..(Len(text) - 1) :
                          text[j] = EndMeta /\ text[j + 1] = CommentClose }
        Opens == { i \in 1..(Len(text) - 1) :
                      text[i] = CommentOpen /\ text[i + 1] = BlogMeta /\ Closes(i) # {} }
    IN  IF Opens = {} THEN [found |-> FALSE, lines |-> <<>>]
        ELSE LET i == CHOOSE i \in Opens : \A k \in Opens : i <= k
                 j == CHOOSE j \in Closes(i) : \A k \in Closes(i) : j <= k
             IN  [found |-> TRUE, lines |-> SubSeq(text, i + 2, j - 1)]

\* one turn of the loop over the lines of the block: meta is the set of its
\* <<key, value>> pairs, an assignment replaces the pair of its key
MetaLine(m, line) ==
    LET i == indexOf(line, ":")
        key == trim(SubSeq(line, 1, i - 1))
        val == trim(SubSeq(line, i + 1, Len(line)))
    IN  IF i = 0 THEN m
        ELSE IF key # <<>> /\ val # <<>>
        THEN { p \in m : p[1] # key } \cup {<<key, val>>}
        ELSE m

RECURSIVE MetaLines(_, _)
MetaLines(m, lines) ==
    IF lines = <<>> THEN m ELSE MetaLines(MetaLine(m, Head(lines)), Tail(lines))

\* handler: the match and the loop over its lines; found tells whether the page
\* holds a block (parseMeta of the blog build is the same code)
MetaOf(text) ==
    LET match == MatchBlock(text) IN
    IF match.found THEN [found |-> TRUE, meta |-> MetaLines({}, match.lines)]
    ELSE [found |-> FALSE, meta |-> {}]

\* a page with the given lines in its metadata block
PostPage(lines) == <<HtmlLine, CommentOpen, BlogMeta>> \o lines \o <<EndMeta, CommentClose, HtmlLine>>

\* the rendered post pages the site answers a dispatch run with: one with a
\* BLOG_META ... END_META comment, one without
Pages == { PostPage(<< <<"t", ":", " ", "x">> >>), <<HtmlLine>> }

\* what the delivery service can do with one send: answer success, answer
\* non-success with or without a message in its body, or the call raises
SendOutcomes ==
    { [kind |-> "ok", message |-> ""],
      [kind |-> "fail", message |-> ""],
      [kind |-> "fail", message |-> "Invalid to field"],
      [kind |-> "throw", message |-> "fetch failed"] }

\* the check skipped when no secret is configured
Unauthorized_openWhenUnset(secret) ==
    env.NEWSLETTER_SECRET # "" /\ (secret = "" \/ secret # env.NEWSLETTER_SECRET)

\* the check without its !secret half
Unauthorized_noEmptyCheck(secret) == secret # env.NEWSLETTER_SECRET

\* !secret || secret !== process.env.NEWSLETTER_SECRET
Unauthorized(secret) == secret = "" \/ secret # env.NEWSLETTER_SECRET

\* the slug looked at before the secret
DispatchRequest_slugFirst(method, slug, secret) ==
    /\ pc \in {"idle", "done"}
    /\ request' = [method |-> method, slug |-> slug, secret |-> secret]
    /\ subscribers' = <<>>
    /\ cursor' = 0
    /\ idx' = 0
    /\ results' = NoResults
    /\ trace' = <<>>
    /\ html' = <<>>
    /\ meta' = {}
    /\ IF method # "POST" THEN
           pc' = "done" /\ response' = ErrorResponse(405, "Method not allowed")
       ELSE IF slug = "" THEN
           pc' = "done" /\ response' = ErrorResponse(400, "slug is required")
       ELSE IF Unauthorized(secret) THEN
           pc' = "done" /\ response' = ErrorResponse(401, "Unauthorized")
       ELSE
           pc' = "fetch" /\ response' = NoResponse
    /\ UNCHANGED <<env, store, rateLimit, now, passed, last, inflight>>

\* handler, up to the try block: a new request is taken when no run is in progress
DispatchRequest(method, slug, secret) ==
    /\ pc \in {"idle", "done"}
    /\ request' = [method |-> method, slug |-> slug, secret |-> secret]
    /\ subscribers' = <<>>
    /\ cursor' = 0
    /\ idx' = 0
    /\ results' = NoResults
    /\ trace' = <<>>
    /\ html' = <<>>
    /\ meta' = {}
    /\ IF method # "POST" THEN
           pc' = "done" /\ response' = ErrorResponse(405, "Method not allowed")
       ELSE IF Unauthorized(secret) THEN
           pc' = "done" /\ response' = ErrorResponse(401, "Unauthorized")
       ELSE IF slug = "" THEN
           pc' = "done" /\ response' = ErrorResponse(400, "slug is required")
       ELSE
           pc' = "fetch" /\ response' = NoResponse
    /\ UNCHANGED <<env, store, rateLimit, now, passed, last, inflight>>

\* handler: await fetch(postUrl), and the BLOG_META match on its text
FetchPage(out, text) ==
    /\ pc = "fetch"
    /\ trace' = Logged(Append(trace, Event("fetchPage", <<>>,
                                           IF out = "ok" /\ ~MetaOf(text).found
                                           THEN "ok, no BLOG_META" ELSE out)), out)
    /\ html' = IF out = "ok" THEN text ELSE <<>>
    /\ meta' = IF out = "ok" THEN MetaOf(text).meta ELSE {}
    /\ IF out = "throw" THEN
           pc' = "done" /\ response' = ErrorResponse(500, "Internal error")
       ELSE IF out = "fail" THEN
           pc' = "done" /\ response' = ErrorResponse(404, "Post not found")
       ELSE IF ~MetaOf(text).found THEN
           pc' = "done" /\ response' = ErrorResponse(400, "No BLOG_META found in post")
       ELSE
           pc' = "query" /\ UNCHANGED response
    /\ UNCHANGED <<request, subscribers, cursor, idx, results>>
    /\ UNCHANGED <<env, store, rateLimit, now, passed, last, inflight>>

\* filter { property: 'Status', select: { equals: 'active' } }: the ids of the
\* active records from id i on, in the store's order
RECURSIVE ActiveFrom(_, _)
ActiveFrom(s, i) ==
    IF i > Len(s) THEN <<>>
    ELSE (IF s[i].status = "active" THEN <<i>> ELSE <<>>) \o ActiveFrom(s, i + 1)

Min(a, b) == IF a < b THEN a ELSE b

\* a continuation cursor that points one record too far
DirectoryPage_skipsRecord(c, n) ==
    LET rest == ActiveFrom(store, IF c = 0 THEN 1 ELSE c)
        size == Min(n, Len(rest))
    IN  [results |-> [k \in 1..size |-> store[rest[k]]],
         has_more |-> Len(rest) > size,
         next_cursor |-> IF Len(rest) > size THEN rest[size + 1] + 1 ELSE 0]

\* the store's answer to a page query from the cursor c (0: from the start) that
\* holds n records: results, has_more, next_cursor
DirectoryPage(c, n) ==
    LET rest == ActiveFrom(store, IF c = 0 THEN 1 ELSE c)
        size == Min(n, Len(rest))
    IN  [results |-> [k \in 1..size |-> store[rest[k]]],
         has_more |-> Len(rest) > size,
         next_cursor |-> IF Len(rest) > size THEN rest[size + 1] ELSE 0]

\* the number of records a page from cursor c can hold: the store fills a page
\* with at most page_size records
PageLengths(c) ==
    LET left == Len(ActiveFrom(store, IF c = 0 THEN 1 ELSE c))
    IN  IF left = 0 THEN {0} ELSE 1..Min(PAGE_SIZE, left)

\* getAllSubscribers: the addresses of one page, records without one skipped
PageEmails(page) ==
    LET HasAddress(r) == r.email # <<>>
        kept == SelectSeq(page.results, HasAddress)
    IN  [k \in 1..Len(kept) |-> kept[k].email]

\* handler, after getAllSubscribers returned emails
AfterDirectory(emails) ==
    /\ subscribers' = emails
    /\ cursor' = 0
    /\ IF Len(emails) = 0 THEN
           /\ pc' = "done"
           /\ response' = NoSubscribersResponse
           /\ UNCHANGED <<idx, results>>
       ELSE
           /\ pc' = "send"
           /\ idx' = 1
           /\ results' = NoResults
           /\ UNCHANGED response

\* a non-success page answer raised as an error and caught by the handler
AfterQueryFailure_throw ==
    /\ pc' = "done"
    /\ response' = ErrorResponse(500, "Internal error")
    /\ UNCHANGED <<subscribers, cursor, idx, results>>

\* getAllSubscribers: if (!res.ok) break, and the return of what was accumulated
AfterQueryFailure == AfterDirectory(subscribers)

\* a raised page query caught inside getAllSubscribers and treated as the end
\* of the list
AfterQueryThrow_swallowed == AfterDirectory(subscribers)

\* a page query that raised: getAllSubscribers has no catch, the error reaches
\* the outer catch of handler
AfterQueryThrow ==
    /\ pc' = "done"
    /\ response' = ErrorResponse(500, "Internal error")
    /\ UNCHANGED <<subscribers, cursor, idx, results>>

\* getAllSubscribers: one turn of the do-while loop, and what follows its end
QueryPage(out, n) ==
    /\ pc = "query"
    /\ trace' = Logged(Append(trace, Event("query", <<>>, out)), out)
    /\ IF out = "throw" THEN
           AfterQueryThrow
       ELSE IF out = "fail" THEN
           AfterQueryFailure
       ELSE
           LET page == DirectoryPage(cursor, n)
               emails == subscribers \o PageEmails(page)
           IN  IF page.has_more /\ page.next_cursor # 0 THEN
                   /\ subscribers' = emails
                   /\ cursor' = page.next_cursor
                   /\ UNCHANGED <<pc, idx, results, response>>
               ELSE
                   AfterDirectory(emails)
    /\ UNCHANGED <<request, html, meta>>
    /\ UNCHANGED <<env, store, rateLimit, now, passed, last, inflight>>

\* handler: the for-loop moves to its next recipient, or the run answers
NextRecipient(r) ==
    IF idx = Len(subscribers) THEN
        /\ pc' = "done"
        /\ response' = ResultsResponse(r)
        /\ UNCHANGED idx
    ELSE
        /\ pc' = "send"
        /\ idx' = idx + 1
        /\ UNCHANGED response

\* err.message || 'Send failed'
SendError(message) == IF message # "" THEN message ELSE "Send failed"

\* the error entry pushed without results.failed++
RecordFailure_uncounted(r, email, error) ==
    [r EXCEPT !.errors = Append(@, [email |-> email, error |-> error])]

\* the entry put at the head of the error list
RecordFailure_unshift(r, email, error) ==
    [r EXCEPT !.failed = @ + 1, !.errors = <<[email |-> email, error |-> error]>> \o @]

\* results after a send the service answered with non-success, or that raised
RecordFailure(r, email, error) ==
    [r EXCEPT !.failed = @ + 1, !.errors = Append(@, [email |-> email, error |-> error])]

\* a raised send leaving the loop for the handler's outer catch
AfterThrow_abort(r) ==
    /\ pc' = "done"
    /\ response' = ErrorResponse(500, "Internal error")
    /\ UNCHANGED idx

\* where the loop body goes after a send that raised: into the catch block
AfterThrow(r) == NextRecipient(r)

\* handler: the body of the for-loop up to the pause
SendOne(out) ==
    /\ pc = "send"
    /\ LET email == subscribers[idx] IN
       /\ trace' = Append(trace, [Event("send", email, out.kind)
                                     EXCEPT !.link = unsubscribeUrl(email)])
       /\ IF out.kind = "ok" THEN
              /\ results' = [results EXCEPT !.sent = @ + 1]
              /\ pc' = "sleep"
              /\ UNCHANGED <<idx, response>>
          ELSE IF out.kind = "fail" THEN
              /\ results' = RecordFailure(results, email, SendError(out.message))
              /\ pc' = "sleep"
              /\ UNCHANGED <<idx, response>>
          ELSE
              /\ results' = RecordFailure(results, email, out.message)
              /\ AfterThrow(results')
    /\ UNCHANGED <<request, subscribers, cursor, html, meta>>
    /\ UNCHANGED <<env, store, rateLimit, now, passed, last, inflight>>

\* handler: await sleep(1500) at the end of the try block of the loop body
Sleep ==
    /\ pc = "sleep"
    /\ trace' = Append(trace, Event("sleep", <<>>, "ok"))
    /\ NextRecipient(results)
    /\ UNCHANGED <<request, subscribers, cursor, results, html, meta>>
    /\ UNCHANGED <<env, store, rateLimit, now, passed, last, inflight>>

----------------------------------------------------------------------------
(* The clock *)

Ticks(t) == (t \div RATE_LIMIT_WINDOW) + (t % RATE_LIMIT_WINDOW)

\* time passes between requests: by one unit, or by the length of a window
Tick(d) ==
    /\ Ticks(now) < MaxTicks
    /\ now' = now + d
    /\ UNCHANGED <<env, store, rateLimit, passed, last, inflight>>
    /\ UNCHANGED dispatchVars

----------------------------------------------------------------------------
(* Initial states *)


NoRequest ==
    [handler |-> "none", req |-> NoSubscribeRequest,
     status |-> 0, body |-> "", calls |-> <<>>, pre |-> <<>>, limited |-> FALSE, before |-> 0]

InitDispatchVars ==
    /\ pc = "idle"
    /\ request = NoDispatchRequest
    /\ subscribers = <<>>
    /\ cursor = 0
    /\ idx = 0
    /\ results = NoResults
    /\ trace = <<>>
    /\ response = NoResponse
    /\ html = <<>>
    /\ meta = {}

Init ==
    /\ env \in [NEWSLETTER_SECRET : {"n1"}, UNSUBSCRIBE_SECRET : Secrets]
    /\ store = <<>>
    /\ rateLimit = [ip \in Callers |-> NoEntry]
    /\ now = 0
    /\ passed = [ip \in Callers |-> <<>>]
    /\ last = NoRequest
    /\ inflight = [r \in 1..MaxInflight |-> NotInflight]
    /\ InitDispatchVars

----------------------------------------------------------------------------
(* Subscribe and unsubscribe requests handled one after another *)

Next ==
    \/ \E rawEmail \in RawEmails, out \in CallPairs :
          Subscribe("POST", "", <<"ip1">>, rawEmail, out[1], out[2])
    \/ \E method \in {"POST", "GET"}, origin \in {"https://www.mkyang.ai", "https://evil.example"} :
          Subscribe(method, origin, <<"ip1">>, Str(AddrA), "ok", "ok")
    \/ \E rawEmail \in QueryEmails, token \in Tokens, out \in StopPairs :
          Unsubscribe(rawEmail, token, out[1], out[2])

Spec == Init /\ [][Next]_vars

(* One dispatch run after another over a store that holds any records *)

Records ==
    { Record(e, st) : e \in {AddrA, AddrB}, st \in {"active", "unsubscribed"} }
        \cup {Record(<<>>, "active"), Record(AddrMixed, "active")}

Stores == UNION { [1..n -> Records] : n \in 0..MaxRecords }

InitDispatch ==
    /\ env \in [NEWSLETTER_SECRET : {"", "n1"}, UNSUBSCRIBE_SECRET : Secrets]
    /\ store \in Stores
    /\ rateLimit = [ip \in Callers |-> NoEntry]
    /\ now = 0
    /\ passed = [ip \in Callers |-> <<>>]
    /\ last = NoRequest
    /\ inflight = [r \in 1..MaxInflight |-> NotInflight]
    /\ InitDispatchVars

NextDispatch ==
    \/ \E method \in {"POST", "GET"}, slug \in {"", "post.html"}, secret \in {"", "n1", "n2"} :
          DispatchRequest(method, slug, secret)
    \/ \E out \in CallOutcomes, text \in Pages : FetchPage(out, text)
    \/ \E out \in CallOutcomes, n \in PageLengths(cursor) : QueryPage(out, n)
    \/ \E out \in SendOutcomes : SendOne(out)
    \/ Sleep

SpecDispatch == InitDispatch /\ [][NextDispatch]_vars

(* The rate limiter under a moving clock: well-formed subscribe requests *)

NextRate ==
    \/ \E xff \in {<<>>, <<"ip2", "ip1">>} :
          Subscribe("POST", "https://mkyang.ai", xff, Str(AddrA), "ok", "ok")
    \/ \E d \in {1, RATE_LIMIT_WINDOW} : Tick(d)

SpecRate == Init /\ [][NextRate]_vars

(* Subscribe requests for one address handled at the same time: every store
   call succeeds or the insert is answered with non-success *)

NextConcurrent ==
    \/ \E r \in 1..MaxInflight, rawEmail \in {Str(AddrA), Str(AddrMixed)} :
          SubscribeCheck(r, "POST", "https://mkyang.ai", <<"ip1">>, rawEmail, "ok")
    \/ \E r \in 1..MaxInflight, insertOut \in {"ok", "fail"} : SubscribeInsert(r, insertOut)

SpecConcurrent == Init /\ [][NextConcurrent]_vars

(* Subscribe and unsubscribe requests for one address between dispatch runs:
   the store changes only while no run is in progress, the duplicate check of
   subscribe may be answered with non-success, every other call succeeds *)

NextLifecycle ==
    \/ /\ pc \in {"idle", "done"}
       /\ \E checkOut \in {"ok", "fail"} :
             Subscribe("POST", "", <<"ip1">>, Str(AddrA), checkOut, "ok")
    \/ /\ pc \in {"idle", "done"}
       /\ \E token \in {NoToken, HmacToken("u1", AddrA)} :
             Unsubscribe(Str(AddrA), token, "ok", "ok")
    \/ DispatchRequest("POST", "post.html", "n1")
    \/ \E text \in Pages : FetchPage("ok", text)
    \/ \E n \in PageLengths(cursor) : QueryPage("ok", n)
    \/ SendOne([kind |-> "ok", message |-> ""])
    \/ Sleep

SpecLifecycle == Init /\ [][NextLifecycle]_vars

(* Dispatch runs over post pages with any small metadata block, no subscribers *)

\* the lines a metadata block is made of: well-formed, padded, without a value,
\* without a key, without a separator, with two separators, empty
MetaBlockLines ==
    { <<"t", ":", "x">>,
      <<" ", "t", " ", ":", " ", "y", " ">>,
      <<"t", ":">>,
      <<"t", ":", " ", "\t">>,
      <<":", "x">>,
      <<"t", " ", "x">>,
      <<"d", ":", "x", ":", "y">>,
      <<"d", " ", ":", "x", " ", "y">>,
      <<>> }

MetaBlocks == UNION { [1..n -> MetaBlockLines] : n \in 1..MaxMetaLines }

\* pages with a block, a page with two closing line pairs, and pages without a
\* block: no comment, no line between the markers, a marker missing
MetaPages ==
    { PostPage(b) : b \in MetaBlocks }
        \cup { PostPage(<< <<"t", ":", "x">>, EndMeta, CommentClose, <<"d", ":", "x">> >>),
               <<HtmlLine>>,
               <<CommentOpen, BlogMeta, EndMeta, CommentClose>>,
               <<BlogMeta, <<"t", ":", "x">>, EndMeta>>,
               <<CommentOpen, BlogMeta, <<"t", ":", "x">>, CommentClose>> }

InitMeta ==
    /\ env = [NEWSLETTER_SECRET |-> "n1", UNSUBSCRIBE_SECRET |-> "u1"]
    /\ store = <<>>
    /\ rateLimit = [ip \in Callers |-> NoEntry]
    /\ now = 0
    /\ passed = [ip \in Callers |-> <<>>]
    /\ last = NoRequest
    /\ inflight = [r \in 1..MaxInflight |-> NotInflight]
    /\ InitDispatchVars

NextMeta ==
    \/ DispatchRequest("POST", "post.html", "n1")
    \/ \E text \in MetaPages : FetchPage("ok", text)
    \/ QueryPage("ok", 0)

SpecMeta == InitMeta /\ [][NextMeta]_vars

----------------------------------------------------------------------------
(* Properties of a dispatch run (SpecDispatch) *)

SendEvents == LET IsSend(e) == e.ev = "send" IN SelectSeq(trace, IsSend)

\* the attempts of the run the delivery service did not answer with success
FailedSends == { k \in 1..Len(SendEvents) : SendEvents[k].out # "ok" }

\* C1: a run in which the send to exactly one recipient k failed (non-success
\* answer or raised call) and every other send succeeded has made one attempt per
\* recipient, in order, and answers 200 with sent = N-1, failed = 1 and one error
\* entry, that of recipient k.
C1_OneFailureIsolated ==
    (pc = "done" /\ Cardinality(FailedSends) = 1) =>
        LET N == Len(subscribers)
            k == CHOOSE k \in FailedSends : TRUE
        IN  /\ Len(SendEvents) = N
            /\ \A i \in 1..N : SendEvents[i].to = subscribers[i]
            /\ response.status = 200
            /\ response.sent = N - 1
            /\ response.failed = 1
            /\ Len(response.errors) = 1
            /\ response.errors[1].email = subscribers[k]

\* a finished run over three recipients whose second send raised
C1_Witness ==
    /\ pc = "done"
    /\ Len(subscribers) = 3
    /\ FailedSends = {2}
    /\ SendEvents[2].out = "throw"
    /\ response.sent = 2

\* C2: no send attempt begins without a completed pause since the previous
\* attempt, whatever the outcome of that attempt: two sends are never adjacent in
\* the run's history.
C2_PauseAfterEveryAttempt ==
    \A i \in 2..Len(trace) : trace[i].ev = "send" => trace[i - 1].ev # "send"

\* the directory client returned, and returned the empty list
DirectoryReturnedEmpty ==
    /\ trace # <<>>
    /\ trace[Len(trace)].ev = "query"
    /\ trace[Len(trace)].out # "throw"
    /\ pc # "query"
    /\ subscribers = <<>>

\* C3: when the directory client returns an empty list the run answers 200 with
\* ok and sent = 0 and no error entries, and its history holds no send and no
\* pause; the send loop is only ever entered with a non-empty list.
C3_EmptySetShortCircuit ==
    /\ pc \in {"send", "sleep"} => subscribers # <<>>
    /\ DirectoryReturnedEmpty =>
        /\ pc = "done"
        /\ response.status = 200
        /\ {"ok", "sent"} \subseteq response.keys
        /\ response.sent = 0
        /\ response.errors = <<>>
        /\ \A i \in 1..Len(trace) : trace[i].ev \notin {"send", "sleep"}

\* the empty list came from a store that holds records, none active with an address
C3_Witness ==
    /\ DirectoryReturnedEmpty
    /\ response.status = 200
    /\ Len(store) >= 2

\* the run is over and issued no directory query, no send and no pause
NoPartialWork ==
    /\ pc = "done"
    /\ \A i \in 1..Len(trace) : trace[i].ev \notin {"query", "send", "sleep"}

\* C4: a request failing a precondition is rejected with the status of that
\* precondition (405 method, 401 secret, 400 slug, 404 page fetch, 400 metadata
\* block) and the run issues no directory query and sends nothing.
C4_PreconditionsRejectWithoutWork ==
    request # NoDispatchRequest =>
        /\ request.method # "POST" => response.status = 405 /\ NoPartialWork
        /\ (request.method = "POST"
              /\ (request.secret = "" \/ request.secret # env.NEWSLETTER_SECRET))
            => response.status = 401 /\ NoPartialWork
        /\ (request.method = "POST" /\ request.secret # ""
              /\ request.secret = env.NEWSLETTER_SECRET /\ request.slug = "")
            => response.status = 400 /\ NoPartialWork
        /\ (trace # <<>> /\ trace[1].ev = "fetchPage" /\ trace[1].out = "fail")
            => response.status = 404 /\ NoPartialWork
        /\ (trace # <<>> /\ trace[1].ev = "fetchPage" /\ trace[1].out = "ok, no BLOG_META")
            => response.status = 400 /\ NoPartialWork

\* an authorised request for a page that holds no metadata block
C4_Witness ==
    /\ trace # <<>>
    /\ trace[1].out = "ok, no BLOG_META"
    /\ response.status = 400
    /\ Len(ActiveFrom(store, 1)) > 0

\* C10: when a page query answers non-success, pagination stops there, the
\* directory client returns exactly the addresses accumulated before it, and the
\* run goes on with them (the send loop, or the empty-set answer): it never
\* answers 500.
C10_PaginationFailureTolerated ==
    \A q \in 1..Len(trace) :
        (trace[q].ev = "query" /\ trace[q].out = "fail") =>
            /\ \A r \in (q + 1)..Len(trace) : trace[r].ev # "query"
            /\ pc # "query"
            /\ subscribers = trace[q].seen
            /\ response.status # 500
            /\ IF subscribers = <<>>
               THEN pc = "done" /\ response.status = 200 /\ response.sent = 0
               ELSE /\ pc \in {"send", "sleep", "done"}
                    /\ pc = "done" =>
                        /\ response.status = 200
                        /\ Len(SendEvents) = Len(subscribers)
                        /\ response.sent + response.failed = Len(subscribers)

\* the second page query failed after a first page of one address, and the run
\* finished with that address
C10_Witness ==
    /\ pc = "done"
    /\ Len(trace) >= 3
    /\ trace[2].ev = "query" /\ trace[2].out = "ok"
    /\ trace[3].ev = "query" /\ trace[3].out = "fail"
    /\ Len(subscribers) = 1
    /\ Len(ActiveFrom(store, 1)) >= 2
    /\ response.status = 200

----------------------------------------------------------------------------
(* Properties of the rate limiter (SpecRate) *)

\* the last request was a subscribe request that got as far as the rate limit
ReachedRateLimit ==
    /\ last.handler = "subscribe"
    /\ last.req.method = "POST"
    /\ last.req.origin = "" \/ last.req.origin \in ALLOWED_ORIGINS

\* C5 as stated: in every interval of 60 units at most 5 requests of a caller pass,
\* that is, a caller's 6 latest passing requests span more than a window.
C5_RollingWindow ==
    \A ip \in Callers :
        Len(passed[ip]) > RATE_LIMIT_MAX =>
            passed[ip][Len(passed[ip])].t - passed[ip][Len(passed[ip]) - RATE_LIMIT_MAX].t
                > RATE_LIMIT_WINDOW

\* C5 amended: the limit is 5 per fixed window per caller. Every passing request
\* lies within 60 units of the start of its window, at most 5 passing requests
\* share a window, and a request is answered 429 exactly when it brings the
\* window's count above 5.
C5_FixedWindow ==
    /\ \A ip \in Callers : \A k \in 1..Len(passed[ip]) :
          LET p == passed[ip][k] IN
          /\ p.start <= p.t
          /\ p.t - p.start <= RATE_LIMIT_WINDOW
          /\ Cardinality({ j \in 1..Len(passed[ip]) : passed[ip][j].start = p.start })
                <= RATE_LIMIT_MAX
    /\ ReachedRateLimit =>
          (last.status = 429 <=> rateLimit[ClientIp(last.req.xff)].count > RATE_LIMIT_MAX)

\* a caller's second window took 5 requests and rejected the sixth
C5_Witness ==
    /\ ReachedRateLimit
    /\ last.status = 429
    /\ LET ip == ClientIp(last.req.xff) IN
       /\ rateLimit[ip].start > 0
       /\ Len(passed[ip]) = RATE_LIMIT_MAX + 1
       /\ passed[ip][2].start = rateLimit[ip].start

----------------------------------------------------------------------------
(* Properties of subscribe and unsubscribe (Spec) *)

\* the last request was a subscribe request that got past the rate limit
ReachedValidation == ReachedRateLimit /\ ~last.limited

\* the address of the last request, trimmed and lowercased
LastEmail == NormalizeEmail(last.req.email.v)

HasRecord(s, email) == \E i \in 1..Len(s) : s[i].email = email

\* the simple email shape, character by character: no whitespace, one @ that is
\* not the first character, and after it a dot with a character on either side
SimpleShape(s) ==
    /\ \A i \in 1..Len(s) : s[i] \notin Whitespace
    /\ Cardinality({ i \in 1..Len(s) : s[i] = "@" }) = 1
    /\ \E a \in 2..Len(s) :
          /\ s[a] = "@"
          /\ \E d \in (a + 2)..(Len(s) - 1) : s[d] = "."

IsTrimmed(s) == s = <<>> \/ (s[1] \notin Whitespace /\ s[Len(s)] \notin Whitespace)
IsLowercase(s) == \A i \in 1..Len(s) : s[i] \notin {"A", "B", "C"}

\* C6: the store never holds two records with the same address, and a subscribe
\* request whose normalized address already has a record inserts nothing and,
\* unless a store call raised, answers 200.
C6_NoDuplicateRecord ==
    /\ \A i \in 1..Len(store) : \A j \in 1..Len(store) :
          i < j => store[i].email # store[j].email
    /\ (ReachedValidation /\ last.req.email.t = "string" /\ HasRecord(last.pre, LastEmail))
          => /\ store = last.pre
             /\ last.status # 500 => last.status = 200

UnsubscribeValidated ==
    /\ last.handler = "unsubscribe"
    /\ last.req.email.t = "string"
    /\ SimpleShape(LastEmail)

\* the token of the last request is the one recomputed for its address
TokenMatches == last.req.token = HmacToken(env.UNSUBSCRIBE_SECRET, LastEmail)

\* C8: an unsubscribe request changes the store only when its token equals the
\* token recomputed for the normalized address or no secret is configured, and
\* then only by setting one record's status to unsubscribed; with a secret
\* configured a missing or non-matching token is answered 403 without any store
\* query or update.
C8_UpdateGatedByToken ==
    /\ (last.handler = "unsubscribe" /\ store # last.pre) =>
          /\ env.UNSUBSCRIBE_SECRET = "" \/ TokenMatches
          /\ Len(store) = Len(last.pre)
          /\ \E i \in 1..Len(store) :
                /\ store[i] = Record(LastEmail, "unsubscribed")
                /\ last.pre[i].email = LastEmail
                /\ \A j \in 1..Len(store) : j # i => store[j] = last.pre[j]
    /\ (UnsubscribeValidated /\ env.UNSUBSCRIBE_SECRET # ""
          /\ (last.req.token = NoToken \/ ~TokenMatches))
          => /\ last.status = 403
             /\ last.calls = <<>>
             /\ store = last.pre

\* with a secret configured, a request carrying the matching token changed a status
C8_Witness ==
    /\ last.handler = "unsubscribe"
    /\ store # last.pre
    /\ env.UNSUBSCRIBE_SECRET # ""
    /\ TokenMatches

\* the last unsubscribe request passed validation and token verification
UnsubscribeAuthorized ==
    /\ UnsubscribeValidated
    /\ env.UNSUBSCRIBE_SECRET = "" \/ (last.req.token # NoToken /\ TokenMatches)

\* C9: an unsubscribe request that passes validation and verification for an
\* address without a record leaves the store unchanged and issues no update; when
\* the store answers the search it is answered 200 with the not-subscribed page.
C9_NoRecordNoMutation ==
    (UnsubscribeAuthorized /\ ~HasRecord(last.pre, LastEmail)) =>
        /\ store = last.pre
        /\ \A i \in 1..Len(last.calls) : last.calls[i].op = "query"
        /\ Len(last.calls) = 1
        /\ last.calls[1].out = "ok" =>
              /\ last.status = 200
              /\ last.body = "This email is not subscribed."

\* the store held a record of another address and answered the search
C9_Witness ==
    /\ UnsubscribeAuthorized
    /\ ~HasRecord(last.pre, LastEmail)
    /\ last.pre # <<>>
    /\ last.pre[1].status = "active"
    /\ last.status = 200

----------------------------------------------------------------------------
(* The unsubscribe link of a dispatched message (SpecDispatch) *)

\* unsubscribe.js, on the query parameters of a link: the request is not turned
\* away as missing, invalid or forged
LinkAccepted(link) ==
    LET rawEmail == Str(decodeURIComponent(link.email))
        email == NormalizeEmail(rawEmail.v)
    IN  /\ ~Falsy(rawEmail)
        /\ ValidEmail(email)
        /\ TokenAccepted(link.token, email)

\* C11: for every address the directory returned, whatever its stored letter
\* case, the unsubscribe link send-newsletter put into the message passes the
\* verification of unsubscribe under the same secret.
C11_IssuedLinkAccepted ==
    \A i \in 1..Len(SendEvents) : LinkAccepted(SendEvents[i].link)

----------------------------------------------------------------------------
(* The metadata of the fetched page (SpecMeta) *)

\* the lines between the marker lines of the fetched page
BlockLines == MatchBlock(html).lines

\* s without its leading and trailing whitespace
Stripped(s) ==
    LET Inked == { i \in 1..Len(s) : s[i] \notin Whitespace } IN
    IF Inked = {} THEN <<>>
    ELSE SubSeq(s, CHOOSE i \in Inked : \A k \in Inked : i <= k,
                   CHOOSE j \in Inked : \A k \in Inked : k <= j)

HasSeparator(line) == \E i \in 1..Len(line) : line[i] = ":"
FirstSeparator(line) ==
    CHOOSE i \in 1..Len(line) : line[i] = ":" /\ \A k \in 1..(i - 1) : line[k] # ":"
KeyOf(line) == Stripped(SubSeq(line, 1, FirstSeparator(line) - 1))
ValueOf(line) == Stripped(SubSeq(line, FirstSeparator(line) + 1, Len(line)))

\* the lines that count: a separator, and a key and a value left after trimming
Counting(lines) ==
    { i \in 1..Len(lines) :
        HasSeparator(lines[i]) /\ KeyOf(lines[i]) # <<>> /\ ValueOf(lines[i]) # <<>> }

PageFetched == trace # <<>> /\ trace[1].ev = "fetchPage" /\ trace[1].out # "fail"

\* C12: the metadata of a fetched page holds exactly the keys of the block's
\* lines that have a ':' and, split at the first ':' and trimmed, a non-empty key
\* and a non-empty value; each key carries the value of the last such line; a
\* page without a block has no metadata and the run answers 400 for it.
C12_MetadataParse ==
    PageFetched =>
        /\ MatchBlock(html).found =>
              meta = { <<KeyOf(BlockLines[i]), ValueOf(BlockLines[i])>> :
                         i \in { i \in Counting(BlockLines) :
                                   \A k \in Counting(BlockLines) :
                                       k > i => KeyOf(BlockLines[k]) # KeyOf(BlockLines[i]) } }
        /\ ~MatchBlock(html).found =>
              meta = {} /\ pc = "done" /\ response.status = 400

\* a block whose key t is given on two lines, beside a key whose value holds
\* a separator
C12_Witness ==
    /\ PageFetched
    /\ BlockLines = << <<"t", ":", "x">>, <<"d", ":", "x", ":", "y">>, <<" ", "t", " ", ":", " ", "y", " ">> >>
    /\ meta = { << <<"t">>, <<"y">> >>, << <<"d">>, <<"x", ":", "y">> >> }

----------------------------------------------------------------------------
(* Errors, order and pagination of a dispatch run (SpecDispatch) *)

QueryEvents == LET IsQuery(e) == e.ev = "query" IN SelectSeq(trace, IsQuery)

\* a call of the run outside the send loop raised
RaisedOutsideSend ==
    \E i \in 1..Len(trace) : trace[i].ev \in {"fetchPage", "query"} /\ trace[i].out = "throw"

\* C13: a call that raises outside a per-recipient send (the page fetch, a
\* directory query) ends the run with the generic 500 and nothing sent; a 500
\* has no other origin, and failed sends of a finished run are only counted and
\* listed in a 200 response.
C13_UnexpectedErrorIs500 ==
    /\ RaisedOutsideSend =>
          pc = "done" /\ response = ErrorResponse(500, "Internal error") /\ SendEvents = <<>>
    /\ response.status = 500 => RaisedOutsideSend
    /\ (pc = "done" /\ FailedSends # {}) =>
          response.status = 200 /\ Len(response.errors) = Cardinality(FailedSends)

\* the query for a second page raised after a first page of addresses was read
C13_Witness ==
    /\ Len(QueryEvents) = 2
    /\ QueryEvents[2].out = "throw"
    /\ subscribers # <<>>
    /\ response.status = 500

\* the directory client returned a list with at least one address
DirectoryReturnedSome ==
    /\ QueryEvents # <<>>
    /\ QueryEvents[Len(QueryEvents)].out # "throw"
    /\ pc # "query"
    /\ subscribers # <<>>

\* C14: a run that obtained a non-empty recipient list has no response while it
\* sends and ends with 200, ok and the counts sent and failed and the error
\* list of its attempts, whatever the pattern of failures, all N failing included.
C14_RunWithRecipientsAnswers200 ==
    DirectoryReturnedSome =>
        /\ pc \in {"send", "sleep", "done"}
        /\ pc # "done" => response = NoResponse
        /\ pc = "done" =>
              /\ response.status = 200
              /\ response.keys = {"ok", "sent", "failed", "errors"}
              /\ response.failed = Cardinality(FailedSends)
              /\ response.sent = Len(subscribers) - response.failed
              /\ Len(response.errors) = response.failed

\* a finished run over three recipients whose sends all failed
C14_Witness ==
    /\ DirectoryReturnedSome
    /\ pc = "done"
    /\ Len(subscribers) = 3
    /\ response.failed = 3
    /\ response.sent = 0
    /\ response.status = 200

\* a page query of the run was answered with non-success: the list was cut short
ListCutShort == \E i \in 1..Len(QueryEvents) : QueryEvents[i].out = "fail"

\* C15: a finished run whose list was cut short by a failed page query says so
\* in its output: it wrote a log line, or its response carries a field that the
\* response of a run over a complete list does not carry.
C15_TruncationReported ==
    (pc = "done" /\ ListCutShort) =>
        \/ \E i \in 1..Len(trace) : trace[i].ev = "console.error"
        \/ response.keys \ {"ok", "sent", "failed", "errors", "message"} # {}

\* the addresses of the active records of the store, in its order
ListedAddresses ==
    LET Listed(r) == r.status = "active" /\ r.email # <<>>
        kept == SelectSeq(store, Listed)
    IN  [k \in 1..Len(kept) |-> kept[k].email]

IsPrefix(s, t) == Len(s) <= Len(t) /\ s = SubSeq(t, 1, Len(s))

\* the positions of the failed attempts, in the order of the attempts
RECURSIVE FailedInOrder(_)
FailedInOrder(n) ==
    IF n = 0 THEN <<>>
    ELSE FailedInOrder(n - 1) \o (IF SendEvents[n].out # "ok" THEN <<n>> ELSE <<>>)

\* C16: the sends of a run are made one after another in the order the
\* directory returned the addresses: attempt i goes to the i-th address, every
\* earlier attempt has its outcome recorded when the next one is made, and the
\* error list holds the failed attempts in the order they were made.
C16_SequentialInOrder ==
    /\ pc \in {"send", "sleep", "done"} => IsPrefix(subscribers, ListedAddresses)
    /\ Len(SendEvents) <= Len(subscribers)
    /\ \A i \in 1..Len(SendEvents) : SendEvents[i].to = subscribers[i]
    /\ pc = "send" => Len(SendEvents) = idx - 1
    /\ pc = "sleep" => Len(SendEvents) = idx
    /\ pc \in {"send", "sleep"} =>
          /\ results.sent + results.failed = Len(SendEvents)
          /\ Len(results.errors) = Len(FailedInOrder(Len(SendEvents)))
          /\ \A k \in 1..Len(results.errors) :
                results.errors[k].email = subscribers[FailedInOrder(Len(SendEvents))[k]]
    /\ (pc = "done" /\ SendEvents # <<>>) =>
          /\ Len(response.errors) = Len(FailedInOrder(Len(SendEvents)))
          /\ \A k \in 1..Len(response.errors) :
                response.errors[k].email = subscribers[FailedInOrder(Len(SendEvents))[k]]

\* three recipients, the first and the last send failed, the two addresses differ
C16_Witness ==
    /\ pc = "done"
    /\ Len(SendEvents) = 3
    /\ FailedSends = {1, 3}
    /\ subscribers[1] # subscribers[3]
    /\ Len(response.errors) = 2
    /\ response.errors[2].email = subscribers[3]

AllQueriesAnswered ==
    QueryEvents # <<>> /\ \A i \in 1..Len(QueryEvents) : QueryEvents[i].out = "ok"

NumActive == LET Active(r) == r.status = "active" IN Len(SelectSeq(store, Active))

\* C17: when every page query is answered with success, the directory client
\* ends after at most one query per active record and returns the addresses of
\* all active records in the store's order, records without an address left out,
\* none skipped and none twice; while it runs it holds a prefix of that list.
C17_ListActiveComplete ==
    AllQueriesAnswered =>
        /\ pc = "query" =>
              IsPrefix(subscribers, ListedAddresses) /\ Len(QueryEvents) < NumActive
        /\ pc # "query" =>
              /\ subscribers = ListedAddresses
              /\ Len(QueryEvents) <= (IF NumActive = 0 THEN 1 ELSE NumActive)

\* three pages of one record each, one of the records without an address
C17_Witness ==
    /\ AllQueriesAnswered
    /\ pc # "query"
    /\ Len(QueryEvents) = 3
    /\ NumActive = 3
    /\ Len(subscribers) = 2

\* C18: send-newsletter checks method, secret, slug, page fetch and metadata
\* in this order: a wrong or missing secret is answered 401 with or without a
\* slug, a missing slug 400 only for a request with the right secret, and in
\* these cases and for a wrong method the page is not fetched; the metadata is
\* only looked for in a page that was fetched.
C18_ValidationOrder ==
    request # NoDispatchRequest =>
        /\ request.method # "POST" =>
              response = ErrorResponse(405, "Method not allowed") /\ trace = <<>>
        /\ (request.method = "POST"
              /\ (request.secret = "" \/ request.secret # env.NEWSLETTER_SECRET)) =>
              response = ErrorResponse(401, "Unauthorized") /\ trace = <<>>
        /\ (request.method = "POST" /\ request.secret # ""
              /\ request.secret = env.NEWSLETTER_SECRET /\ request.slug = "") =>
              response = ErrorResponse(400, "slug is required") /\ trace = <<>>
        /\ trace # <<>> => trace[1].ev = "fetchPage"
        /\ response.message = "No BLOG_META found in post" =>
              trace # <<>> /\ trace[1].out = "ok, no BLOG_META"

\* a request without the right secret and without a slug
C18_Witness ==
    /\ request.method = "POST"
    /\ request.secret = "n2"
    /\ request.slug = ""
    /\ response.status = 401

----------------------------------------------------------------------------
(* The origin check of subscribe (Spec) *)

ForeignOrigin(req) == req.origin # "" /\ req.origin \notin ALLOWED_ORIGINS

\* C19 as stated: a subscribe request whose Origin header is not on the
\* allow-list is answered 403, whatever else it carries, and without a store call.
C19_OriginCheckedFirst ==
    (last.handler = "subscribe" /\ ForeignOrigin(last.req)) =>
        last.status = 403 /\ last.calls = <<>> /\ store = last.pre

\* C19, amended: the method is looked at first; a POST request whose Origin
\* header is not on the allow-list is answered 403 and a request of another
\* method 405, and in both cases the rate-limit map and the store are left as
\* they were and no store call is made.
C19_OriginCheckedAfterMethod ==
    [][ (last'.handler = "subscribe" /\ ForeignOrigin(last'.req)) =>
            /\ last'.status = (IF last'.req.method = "POST" THEN 403 ELSE 405)
            /\ last'.calls = <<>>
            /\ rateLimit' = rateLimit
            /\ passed' = passed
            /\ store' = store ]_vars

\* a POST request from a foreign origin turned away by a handler that has
\* counted requests of the caller and holds a record
C19_Witness ==
    /\ last.handler = "subscribe"
    /\ last.req.method = "POST"
    /\ last.req.origin = "https://evil.example"
    /\ last.status = 403
    /\ rateLimit["ip1"].count >= 1
    /\ store # <<>>

----------------------------------------------------------------------------
(* Subscribe requests in progress at the same time (SpecConcurrent) *)

\* C20: however the duplicate checks and inserts of subscribe requests for one
\* normalized address interleave, the store holds at most one record for it.
C20_ConcurrentNoDuplicate ==
    \A i \in 1..Len(store), j \in 1..Len(store) : i < j => store[i].email # store[j].email

----------------------------------------------------------------------------
(* The counts of a dispatch run (SpecDispatch) *)

\* the attempts of the run the delivery service answered with success
SucceededSends == { k \in 1..Len(SendEvents) : SendEvents[k].out = "ok" }

\* C21: while a run sends, sent + failed is the number of attempts made so far,
\* sent the number of those that succeeded, and the error list has one entry
\* per failed attempt; a run that went through the loop answers with
\* sent + failed = N, the number of addresses the directory client returned.
C21_Accounting ==
    /\ pc \in {"send", "sleep"} =>
          /\ results.sent + results.failed = Len(SendEvents)
          /\ results.sent = Cardinality(SucceededSends)
          /\ Len(results.errors) = results.failed
    /\ (pc = "done" /\ idx >= 1) =>
          /\ Len(SendEvents) = Len(subscribers)
          /\ response.sent + response.failed = Len(subscribers)
          /\ response.sent = Cardinality(SucceededSends)
          /\ Len(response.errors) = response.failed

\* a finished run over three recipients: one sent, one answered with
\* non-success, one raised
C21_Witness ==
    /\ pc = "done"
    /\ Len(subscribers) = 3
    /\ response.sent = 1
    /\ response.failed = 2
    /\ \E i, j \in 1..3 : SendEvents[i].out = "fail" /\ SendEvents[j].out = "throw"

----------------------------------------------------------------------------
(* Unsubscribe, then dispatch (SpecLifecycle) *)

\* the last subscribe or unsubscribe request was an unsubscribe request that
\* was answered with the success page
UnsubscribedLast ==
    /\ last.handler = "unsubscribe"
    /\ last.status = 200
    /\ last.body = "You have been unsubscribed. Sorry to see you go."

\* C22: a dispatch run in progress that started after an unsubscribe request
\* for an address was answered with the success page, with no subscribe request
\* since, has sent no message to that address.
C22_UnsubscribeEffective ==
    (UnsubscribedLast /\ pc \notin {"idle", "done"}) =>
        \A i \in 1..Len(SendEvents) : SendEvents[i].to # LastEmail

----------------------------------------------------------------------------
(* Subscribe for an address that has a record (Spec) *)

HasActiveRecord(s, email) ==
    \E i \in 1..Len(s) : s[i].email = email /\ s[i].status = "active"

\* C23: a subscribe request whose normalized address already has a record,
\* active or unsubscribed, inserts nothing and leaves every record's status as
\* it was, so an address without an active record has none afterwards; unless a
\* store call failed the request is answered 200 {ok: true}.
C23_ExistingRecordUntouched ==
    (ReachedValidation /\ last.req.email.t = "string" /\ HasRecord(last.pre, LastEmail)) =>
        /\ Len(store) = Len(last.pre)
        /\ \A i \in 1..Len(store) : store[i] = last.pre[i]
        /\ ~HasActiveRecord(last.pre, LastEmail) => ~HasActiveRecord(store, LastEmail)
        /\ last.status # 500 => (last.status = 200 /\ last.body = "ok")

----------------------------------------------------------------------------
(* send-newsletter without a configured secret (SpecDispatch) *)

\* C24: with no newsletter secret configured every request is turned away
\* before any work, a POST request with 401 whatever secret it carries, none
\* included (a request of another method with 405); a run fetches, queries or
\* sends only when a secret is configured and the request carries that secret.
C24_NoOpenMode ==
    /\ (request # NoDispatchRequest /\ env.NEWSLETTER_SECRET = "") =>
          /\ pc = "done"
          /\ trace = <<>>
          /\ request.method = "POST" => response = ErrorResponse(401, "Unauthorized")
          /\ response.status \in {401, 405}
    /\ (pc \notin {"idle", "done"} \/ trace # <<>>) =>
          env.NEWSLETTER_SECRET # "" /\ request.secret = env.NEWSLETTER_SECRET

\* no secret configured, and a well-formed request that carries none
C24_Witness ==
    /\ env.NEWSLETTER_SECRET = ""
    /\ request.method = "POST"
    /\ request.slug = "post.html"
    /\ request.secret = ""
    /\ response.status = 401

----------------------------------------------------------------------------
(* The end of a caller's window (SpecRate) *)

\* C25: a request of a caller that arrives more than 60000 time units after the
\* start of the caller's window (or is the caller's first) passes the limiter
\* and opens a window at its arrival with count 1, however high the count of
\* the old window; any other request, rejected ones included, adds one to the
\* count and leaves the start of the window where it was.
C25_WindowExpires ==
    [][ \A ip \in Callers :
          rateLimit'[ip] # rateLimit[ip] =>
              /\ ClientIp(last'.req.xff) = ip
              /\ IF rateLimit[ip] = NoEntry \/ now - rateLimit[ip].start > RATE_LIMIT_WINDOW
                 THEN /\ rateLimit'[ip] = [start |-> now, count |-> 1]
                      /\ last'.status # 429
                      /\ passed'[ip] # <<>>
                      /\ passed'[ip][Len(passed'[ip])].t = now
                 ELSE /\ rateLimit'[ip].start = rateLimit[ip].start
                      /\ rateLimit'[ip].count = rateLimit[ip].count + 1
                      /\ last'.status = 429 <=> rateLimit[ip].count >= RATE_LIMIT_MAX ]_vars

\* a caller whose window had rejected a request is let in again after the window
C25_Witness ==
    \E ip \in Callers :
        /\ rateLimit[ip].count = 1
        /\ rateLimit[ip].start > RATE_LIMIT_WINDOW
        /\ passed[ip] # <<>>
        /\ passed[ip][Len(passed[ip])].t = rateLimit[ip].start
        /\ ClientIp(last.req.xff) = ip
        /\ last.before > RATE_LIMIT_MAX
        /\ last.status = 200
====
